---- MODULE Spec2Model ----
(***************************************************************************)
(* A model of ai.Tycoon.cpp: the market simulation, the online linear      *)
(* demand model (AIAdvisor) and the weekly game loop of main().            *)
(*                                                                         *)
(* Every `double` of the program is a fixed-point integer counting         *)
(* thousandths (Scale); products are rounded to the nearest thousandth.    *)
(* Units (inventory, production, sold) are plain integers, as the          *)
(* program's `int`.  Ad spend is kept in whole dollars, log1p is a table   *)
(* of its values at the ad spends the model uses.                          *)
(***************************************************************************)
EXTENDS Integers, Sequences, FiniteSets, TLC

VARIABLES
    pc,          \* position of main() inside the week's loop body
    week,        \* loop counter of main()
    baseDemand,  \* Market::baseDemand
    ev,          \* the MarketEvent drawn this week
    inventory,   \* Company::inventory
    cash,        \* Company::cash
    w,           \* the five weights of AIAdvisor
    baseProxy,   \* main()'s baseProxy
    bestFound,   \* suggest's locals bestProfit and best when it returned
    chosen,      \* the finalized Plan
    avail,       \* co.inventory as passed to realizeDemand (after production)
    potential,   \* realizeDemand's result
    sold,        \* units sold this week
    history,     \* Company::history, the sold field of each Snapshot
    steps,       \* the steps of the loop body done so far this week, in order
    rngLog,      \* who drew from rng so far this week, in order
    learnCalls,  \* number of calls of ai.learn so far
    learnArgs,   \* the arguments of the last call of ai.learn
    wBefore,     \* the weights when the last call of ai.learn started
    upset        \* one of this week's inputs already left its typical value

vars == <<pc, week, baseDemand, ev, inventory, cash, w, baseProxy, bestFound,
          chosen, avail, potential, sold, history, steps, rngLog,
          learnCalls, learnArgs, wBefore, upset>>

\* the Plan the last call of ai.suggest returned
plan == bestFound.plan

\* the predicted profit of that plan
bestProfit == bestFound.profit

-----------------------------------------------------------------------------
(* Fixed-point arithmetic standing for the program's double arithmetic.    *)

Scale == 10^3

Min(a, b) == IF a < b THEN a ELSE b
Max(a, b) == IF a > b THEN a ELSE b

\* n / d rounded to the nearest integer (d > 0)
RoundDiv(n, d) == (2 * n + d) \div (2 * d)

\* a * b of two fixed-point numbers, rounded to the nearest thousandth; a is
\* split so that no intermediate product leaves 32 bits while |b| < 10^6
Mul(a, b) == (a \div Scale) * b + (2 * (a % Scale) * b + Scale) \div (2 * Scale)

\* (int)round(x) and (int)floor(x + 0.5) for x >= 0
roundInt(x) == (x + Scale \div 2) \div Scale

\* template<class T> T clampv(T v, T lo, T hi)
clampv(v, lo, hi) == Max(lo, Min(hi, v))

\* log1p at the ad spends the model uses (whole dollars), in thousandths
log1pTable ==
    (0 :> 0) @@ (500 :> 6217) @@ (1000 :> 6909) @@ (1500 :> 7314) @@
    (2000 :> 7601) @@ (2500 :> 7824) @@ (3000 :> 8007) @@ (3500 :> 8161) @@
    (4000 :> 8294) @@ (4500 :> 8412) @@ (5000 :> 8517) @@ (5500 :> 8613) @@
    (6000 :> 8700) @@ (6500 :> 8780) @@ (7000 :> 8854) @@ (7500 :> 8923) @@
    (8000 :> 8987) @@ (10000 :> 9210)

log1p(ad) == log1pTable[ad]

-----------------------------------------------------------------------------
(* Company                                                                 *)

inventoryInit == 40
cashInit == 20000
unitCost == 8
fixedCost == 1200

-----------------------------------------------------------------------------
(* AIAdvisor                                                               *)

\* AIAdvisor::AIAdvisor: the prior weights
priorWeights == [w0 |-> 40000, wP |-> 1000, wA |-> 8000, wB |-> 500, wI |-> 100]

\* lr = 0.0015 as lrNum / lrDen
lrNum == 15
lrDen == 10000

\* lr * err
lrTimes(err) ==
    lrNum * (err \div lrDen) + RoundDiv(lrNum * (err % lrDen), lrDen)

\* AIAdvisor::predict
predict(wt, price, ad, proxy, inventoryAvail, eventAdMult, eventPriceMult) ==
    LET x0 == Scale
        xP == - Mul(price, Scale + eventPriceMult)
        xA == Mul(log1p(ad), Scale + eventAdMult)
        xB == proxy
        xI == inventoryAvail * Scale
        yhat == Mul(wt.w0, x0) + Mul(wt.wP, xP) + Mul(wt.wA, xA)
                  + Mul(wt.wB, xB) + Mul(wt.wI, xI)
    IN  Max(0, yhat)

\* the error learn computes: (double)sold - yhat, yhat not floored at zero
learnErr(wt, price, ad, proxy, inventoryAvail, soldUnits, eventAdMult, eventPriceMult) ==
    LET x0 == Scale
        xP == - Mul(price, Scale + eventPriceMult)
        xA == Mul(log1p(ad), Scale + eventAdMult)
        xB == proxy
        xI == inventoryAvail * Scale
        yhat == Mul(wt.w0, x0) + Mul(wt.wP, xP) + Mul(wt.wA, xA)
                  + Mul(wt.wB, xB) + Mul(wt.wI, xI)
    IN  soldUnits * Scale - yhat

\* the clamp ranges of learn
w0Lo == -200000
w0Hi == 300000
wPLo == -10000
wPHi == 10000
wALo == -40000
wAHi == 40000
wBLo == -5000
wBHi == 5000
wILo == -500
wIHi == 500

\* learn with the clamps left out
learnUnclamped(wt, price, ad, proxy, inventoryAvail, soldUnits, eventAdMult, eventPriceMult) ==
    LET x0 == Scale
        xP == - Mul(price, Scale + eventPriceMult)
        xA == Mul(log1p(ad), Scale + eventAdMult)
        xB == proxy
        xI == inventoryAvail * Scale
        err == learnErr(wt, price, ad, proxy, inventoryAvail, soldUnits,
                        eventAdMult, eventPriceMult)
    IN  [w0 |-> wt.w0 + Mul(lrTimes(err), x0),
         wP |-> wt.wP + Mul(lrTimes(err), xP),
         wA |-> wt.wA + Mul(lrTimes(err), xA),
         wB |-> wt.wB + Mul(lrTimes(err), xB),
         wI |-> wt.wI + Mul(lrTimes(err), xI)]

\* learn with the update subtracted instead of added
learnDescending(wt, price, ad, proxy, inventoryAvail, soldUnits, eventAdMult, eventPriceMult) ==
    LET x0 == Scale
        xP == - Mul(price, Scale + eventPriceMult)
        xA == Mul(log1p(ad), Scale + eventAdMult)
        xB == proxy
        xI == inventoryAvail * Scale
        err == learnErr(wt, price, ad, proxy, inventoryAvail, soldUnits,
                        eventAdMult, eventPriceMult)
    IN  [w0 |-> clampv(wt.w0 - Mul(lrTimes(err), x0), w0Lo, w0Hi),
         wP |-> clampv(wt.wP - Mul(lrTimes(err), xP), wPLo, wPHi),
         wA |-> clampv(wt.wA - Mul(lrTimes(err), xA), wALo, wAHi),
         wB |-> clampv(wt.wB - Mul(lrTimes(err), xB), wBLo, wBHi),
         wI |-> clampv(wt.wI - Mul(lrTimes(err), xI), wILo, wIHi)]

\* AIAdvisor::learn: the weights after the call
learn(wt, price, ad, proxy, inventoryAvail, soldUnits, eventAdMult, eventPriceMult) ==
    LET x0 == Scale
        xP == - Mul(price, Scale + eventPriceMult)
        xA == Mul(log1p(ad), Scale + eventAdMult)
        xB == proxy
        xI == inventoryAvail * Scale
        err == learnErr(wt, price, ad, proxy, inventoryAvail, soldUnits,
                        eventAdMult, eventPriceMult)
    IN  [w0 |-> clampv(wt.w0 + Mul(lrTimes(err), x0), w0Lo, w0Hi),
         wP |-> clampv(wt.wP + Mul(lrTimes(err), xP), wPLo, wPHi),
         wA |-> clampv(wt.wA + Mul(lrTimes(err), xA), wALo, wAHi),
         wB |-> clampv(wt.wB + Mul(lrTimes(err), xB), wBLo, wBHi),
         wI |-> clampv(wt.wI + Mul(lrTimes(err), xI), wILo, wIHi)]

\* the grid of suggest
priceLo == 9
priceHi == 40
adHi == 8000
adStep == 500
prodHi == 120
prodStep == 10

\* bestProfit = -1e18, below every profit of the grid
bestProfitInit == -(10^9)

\* Plan best{20, 1000, 50}
bestInit == [profit |-> bestProfitInit,
             plan |-> [price |-> 20 * Scale, adSpend |-> 1000, production |-> 50]]

\* the profit of a grid point with the sale not capped at the inventory
gridProfitUncapped(wt, inv, proxy, eam, epm, price, ad, prod) ==
    LET demandHat == predict(wt, price * Scale, ad, proxy, inv + prod, eam, epm)
        revenue == roundInt(demandHat) * price
        cost == prod * unitCost + ad + fixedCost
    IN  revenue - cost

\* the body of the innermost loop: the profit of one grid point, in dollars
gridProfit(wt, inv, proxy, eam, epm, price, ad, prod) ==
    LET demandHat == predict(wt, price * Scale, ad, proxy, inv + prod, eam, epm)
        canSell == Min(roundInt(demandHat), inv + prod)
        revenue == canSell * price
        cost == prod * unitCost + ad + fixedCost
    IN  revenue - cost

\* a replacement test that lets an equal profit replace the incumbent
improvesOrTies(profit, best) == profit >= best

\* if (profit > bestProfit)
improves(profit, best) == profit > best

\* the values a (bestProfit, best) pair of suggest can take
Bests == [profit : Int, plan : [price : Int, adSpend : Int, production : Int]]

\* the three loops of suggest over the grid up to pHi, aHi and qHi: bestProfit
\* and best when they end.  Each loop is a function of its loop variable and
\* the incumbent it starts with.
gridSearch(wt, inv, proxy, eam, epm, pHi, aHi, qHi) ==
    LET prodLoop[price \in Int, ad \in Int, prod \in Int, best \in Bests] ==
            IF prod > qHi THEN best
            ELSE LET profit == gridProfit(wt, inv, proxy, eam, epm, price, ad, prod)
                 IN  prodLoop[price, ad, prod + prodStep,
                              IF improves(profit, best.profit)
                              THEN [profit |-> profit,
                                    plan |-> [price |-> price * Scale,
                                              adSpend |-> ad,
                                              production |-> prod]]
                              ELSE best]
        adLoop[price \in Int, ad \in Int, best \in Bests] ==
            IF ad > aHi THEN best
            ELSE adLoop[price, ad + adStep, prodLoop[price, ad, 0, best]]
        priceLoop[price \in Int, best \in Bests] ==
            IF price > pHi THEN best
            ELSE priceLoop[price + 1, adLoop[price, 0, best]]
    IN  priceLoop[priceLo, bestInit]

\* a suggest whose price loop runs one step past the grid
suggestPastGrid(wt, inv, proxy, eam, epm) ==
    gridSearch(wt, inv, proxy, eam, epm, priceHi + 1, adHi, prodHi)

\* AIAdvisor::suggest
suggest(wt, inv, proxy, eam, epm) ==
    gridSearch(wt, inv, proxy, eam, epm, priceHi, adHi, prodHi)

-----------------------------------------------------------------------------
(* Market                                                                  *)

baseDemandInit == 60000
priceSensitivity == 1400
adEffect == 9000
demandDrift == 200
baseDemandFloor == 5000
availabilityBoost == 80

\* Market::drift with the normal draw n
drift(base, n) == Max(baseDemandFloor, base + demandDrift + n)

\* Market::realizeDemand with the normal draw n
realizeDemand(base, price, adSpend, event, inventoryAvail, n) ==
    LET priceMult == Scale + event.priceShock
        adMult == Scale + event.adShock
        mu == base + event.baseShock
                - Mul(Mul(priceSensitivity, price), priceMult)
                + Mul(Mul(adEffect, log1p(adSpend)), adMult)
                + availabilityBoost * inventoryAvail
        demand == Max(0, mu + n)
    IN  roundInt(demand)

\* drawEvent: the event of a uniform draw r in [0,1), r in thousandths
drawEvent(r) ==
    IF r < 100 THEN [name |-> "Viral Trend", baseShock |-> 20000,
                     adShock |-> 500, priceShock |-> -100]
    ELSE IF r < 200 THEN [name |-> "New Competitor", baseShock |-> -15000,
                          adShock |-> -100, priceShock |-> 250]
    ELSE IF r < 300 THEN [name |-> "Supply News (positive)", baseShock |-> 5000,
                          adShock |-> 50, priceShock |-> -50]
    ELSE IF r < 400 THEN [name |-> "Macro Slump", baseShock |-> -10000,
                          adShock |-> -100, priceShock |-> 150]
    ELSE [name |-> "Nothing Special", baseShock |-> 0, adShock |-> 0,
          priceShock |-> 0]

-----------------------------------------------------------------------------
(* main(): the game loop                                                   *)

weeks == 12
cashFloor == -5000

\* the model follows the first MaxWeeks weeks of the game
MaxWeeks == 2

lastWeek == Min(weeks, MaxWeeks)

\* the steps of the loop body in the order main() runs them
stepOrder == <<"drift", "drawEvent", "suggest", "finalize", "realizeDemand",
               "settle", "learn", "proxy">>

\* the loop body with the proxy update moved before the call of learn
stepOrderProxyFirst == <<"drift", "drawEvent", "suggest", "finalize",
                         "realizeDemand", "settle", "proxy", "learn">>

indexIn(order, step) == CHOOSE i \in 1..Len(order) : order[i] = step

\* a loop body that updates the proxy before it calls learn
nextStepProxyFirst(step) ==
    IF indexIn(stepOrderProxyFirst, step) = Len(stepOrderProxyFirst)
    THEN "endWeek"
    ELSE stepOrderProxyFirst[indexIn(stepOrderProxyFirst, step) + 1]

\* the statement main() runs after `step`; the test that ends the week comes
\* after the last one
nextStep(step) ==
    IF indexIn(stepOrder, step) = Len(stepOrder)
    THEN "endWeek"
    ELSE stepOrder[indexIn(stepOrder, step) + 1]

noEvent == [name |-> "", baseShock |-> 0, adShock |-> 0, priceShock |-> 0]
noPlan == [price |-> 0, adSpend |-> 0, production |-> 0]
noArgs == [price |-> 0, ad |-> 0, baseProxy |-> 0, inventoryAvail |-> 0,
           sold |-> 0, eventAdMult |-> 0, eventPriceMult |-> 0]

\* The draws from rng and the player's answers.  Each has a typical value
\* (no noise, "Nothing Special", accepting the plan); in one week at most one
\* of them leaves its typical value (upset records that one has).
DriftNoise == {0, 800}
UniformDraws == {50, 150, 250, 350, 700}
DemandNoise == {-6000, 0, 6000}
ProxyNoise == {-3000, 0}

\* the three lines the player types after answering n: <<>> is an empty
\* line, <<x>> a line that reads as the number x
Overrides ==
    {[price |-> <<5000>>, ad |-> <<>>, prod |-> <<>>],
     [price |-> <<>>, ad |-> <<20000>>, prod |-> <<-5>>],
     [price |-> <<100000>>, ad |-> <<-100>>, prod |-> <<300>>],
     [price |-> <<25500>>, ad |-> <<1500>>, prod |-> <<100>>]}

MayLeave(typical) == typical \/ ~upset

Init ==
    /\ pc = "drift"
    /\ week = 1
    /\ baseDemand = baseDemandInit
    /\ ev = noEvent
    /\ inventory = inventoryInit
    /\ cash = cashInit * Scale
    /\ w = priorWeights
    /\ baseProxy = 50 * Scale
    /\ bestFound = [profit |-> bestProfitInit, plan |-> noPlan]
    /\ chosen = noPlan
    /\ avail = 0
    /\ potential = 0
    /\ sold = 0
    /\ history = <<>>
    /\ steps = <<>>
    /\ rngLog = <<>>
    /\ learnCalls = 0
    /\ learnArgs = noArgs
    /\ wBefore = priorWeights
    /\ upset = FALSE

\* mk.drift()
Drift ==
    /\ pc = "drift"
    /\ \E n \in DriftNoise :
        /\ baseDemand' = drift(baseDemand, n)
        /\ upset' = (n # 0)
    /\ rngLog' = Append(rngLog, "drift")
    /\ steps' = Append(steps, "drift")
    /\ pc' = nextStep("drift")
    /\ UNCHANGED <<week, ev, inventory, cash, w, baseProxy, bestFound,
                   chosen, avail, potential, sold, history, learnCalls,
                   learnArgs, wBefore>>

\* MarketEvent ev = drawEvent(week)
DrawEvent ==
    /\ pc = "drawEvent"
    /\ \E r \in UniformDraws :
        /\ MayLeave(drawEvent(r).name = "Nothing Special")
        /\ ev' = drawEvent(r)
        /\ upset' = (upset \/ drawEvent(r).name # "Nothing Special")
    /\ rngLog' = Append(rngLog, "drawEvent")
    /\ steps' = Append(steps, "drawEvent")
    /\ pc' = nextStep("drawEvent")
    /\ UNCHANGED <<week, baseDemand, inventory, cash, w, baseProxy, bestFound, chosen, avail, potential, sold, history,
                   learnCalls, learnArgs, wBefore>>

\* a suggest that also shrinks the weights it reads
SuggestTouchingWeights ==
    /\ pc = "suggest"
    /\ bestFound' = suggest(w, inventory, baseProxy, ev.adShock, ev.priceShock)
    /\ w' = [w EXCEPT !.w0 = w.w0 - 1]
    /\ steps' = Append(steps, "suggest")
    /\ pc' = nextStep("suggest")
    /\ UNCHANGED <<week, baseDemand, ev, inventory, cash, baseProxy, chosen, avail, potential, sold, history, rngLog, learnCalls,
                   learnArgs, wBefore, upset>>

\* Plan plan = ai.suggest(co, baseProxy, ev.adShock, ev.priceShock)
Suggest ==
    /\ pc = "suggest"
    /\ bestFound' = suggest(w, inventory, baseProxy, ev.adShock, ev.priceShock)
    /\ steps' = Append(steps, "suggest")
    /\ pc' = nextStep("suggest")
    /\ UNCHANGED <<week, baseDemand, ev, inventory, cash, w, baseProxy, chosen,
                   avail, potential, sold, history, rngLog, learnCalls,
                   learnArgs, wBefore, upset>>

\* the player's lines applied to the plan with no clamping
overrideUnclamped(p, in) ==
    [price |-> IF Len(in.price) > 0 THEN in.price[1] ELSE p.price,
     adSpend |-> IF Len(in.ad) > 0 THEN in.ad[1] ELSE p.adSpend,
     production |-> IF Len(in.prod) > 0 THEN in.prod[1] ELSE p.production]

\* Plan chosen = plan, then each field the player typed, clamped
override(p, in) ==
    [price |-> IF Len(in.price) > 0 THEN clampv(in.price[1], 9 * Scale, 40 * Scale)
               ELSE p.price,
     adSpend |-> IF Len(in.ad) > 0 THEN clampv(in.ad[1], 0, 10000)
                 ELSE p.adSpend,
     production |-> IF Len(in.prod) > 0 THEN clampv(in.prod[1], 0, 200)
                    ELSE p.production]

\* the player accepts the plan (any answer but n/N, or an empty line)
Accept ==
    /\ pc = "finalize"
    /\ chosen' = plan
    /\ steps' = Append(steps, "finalize")
    /\ pc' = nextStep("finalize")
    /\ UNCHANGED <<week, baseDemand, ev, inventory, cash, w, baseProxy, bestFound, avail, potential, sold, history, rngLog,
                   learnCalls, learnArgs, wBefore, upset>>

\* the player answers n and types three lines
Override ==
    /\ pc = "finalize"
    /\ ~upset
    /\ \E in \in Overrides : chosen' = override(plan, in)
    /\ upset' = TRUE
    /\ steps' = Append(steps, "finalize")
    /\ pc' = nextStep("finalize")
    /\ UNCHANGED <<week, baseDemand, ev, inventory, cash, w, baseProxy, bestFound, avail, potential, sold, history, rngLog,
                   learnCalls, learnArgs, wBefore>>

\* the player types a line stod or stoi cannot read: the exception leaves
\* main() and the process ends
BadLine ==
    /\ pc = "finalize"
    /\ ~upset
    /\ pc' = "terminated"
    /\ UNCHANGED <<week, baseDemand, ev, inventory, cash, w, baseProxy, bestFound, chosen, avail, potential, sold, history, steps,
                   rngLog, learnCalls, learnArgs, wBefore, upset>>

\* a sale that is not capped by the stock
saleUncapped(pot, stock) == pot

\* int sold = min(potential, co.inventory)
sale(pot, stock) == Min(pot, stock)

\* co.inventory += chosen.production; potential = mk.realizeDemand(...);
\* sold = min(potential, co.inventory); co.inventory -= sold
RealizeDemand ==
    /\ pc = "realizeDemand"
    /\ \E n \in DemandNoise :
        /\ MayLeave(n = 0)
        /\ upset' = (upset \/ n # 0)
        /\ LET stock == inventory + chosen.production
               pot == realizeDemand(baseDemand, chosen.price, chosen.adSpend,
                                    ev, stock, n)
           IN  /\ avail' = stock
               /\ potential' = pot
               /\ sold' = sale(pot, stock)
               /\ inventory' = stock - sale(pot, stock)
    /\ rngLog' = Append(rngLog, "realizeDemand")
    /\ steps' = Append(steps, "realizeDemand")
    /\ pc' = nextStep("realizeDemand")
    /\ UNCHANGED <<week, baseDemand, ev, cash, w, baseProxy, bestFound,
                   chosen, history, learnCalls, learnArgs, wBefore>>

\* revenue, cost, profit, co.cash += profit, co.history.push_back(snap)
Settle ==
    /\ pc = "settle"
    /\ LET revenue == sold * chosen.price
           cost == (chosen.production * unitCost + chosen.adSpend + fixedCost)
                     * Scale
       IN  cash' = cash + (revenue - cost)
    /\ history' = Append(history, sold)
    /\ steps' = Append(steps, "settle")
    /\ pc' = nextStep("settle")
    /\ UNCHANGED <<week, baseDemand, ev, inventory, w, baseProxy, bestFound, chosen, avail, potential, sold, rngLog,
                   learnCalls, learnArgs, wBefore, upset>>

\* a call of learn that is given the uncensored demand as its target
learnCallUncensored(ch, proxy, inv, so, pot, event) ==
    [price |-> ch.price, ad |-> ch.adSpend, baseProxy |-> proxy,
     inventoryAvail |-> inv + so, sold |-> pot,
     eventAdMult |-> event.adShock, eventPriceMult |-> event.priceShock]

\* the arguments of ai.learn(chosen.price, chosen.adSpend, baseProxy,
\* co.inventory + sold, sold, ev.adShock, ev.priceShock)
learnCall(ch, proxy, inv, so, pot, event) ==
    [price |-> ch.price, ad |-> ch.adSpend, baseProxy |-> proxy,
     inventoryAvail |-> inv + so, sold |-> so,
     eventAdMult |-> event.adShock, eventPriceMult |-> event.priceShock]

\* ai.learn(...)
Learn ==
    /\ pc = "learn"
    /\ LET a == learnCall(chosen, baseProxy, inventory, sold, potential, ev)
       IN  /\ learnArgs' = a
           /\ w' = learn(w, a.price, a.ad, a.baseProxy, a.inventoryAvail,
                         a.sold, a.eventAdMult, a.eventPriceMult)
    /\ wBefore' = w
    /\ learnCalls' = learnCalls + 1
    /\ steps' = Append(steps, "learn")
    /\ pc' = nextStep("learn")
    /\ UNCHANGED <<week, baseDemand, ev, inventory, cash, baseProxy, bestFound, chosen, avail, potential, sold, history, rngLog,
                   upset>>

RECURSIVE sumFrom(_, _)
sumFrom(h, i) == IF i > Len(h) THEN 0 ELSE h[i] + sumFrom(h, i + 1)

\* the public proxy after the update, with the normal draw n
proxyUpdate(proxy, h, n) ==
    LET start == Max(0, Len(h) - 3)
        avgSales == RoundDiv(sumFrom(h, start + 1) * Scale, Len(h) - start)
    IN  Max(0, Mul(700, proxy) + Mul(300, avgSales) + n)

\* baseProxy = max(0.0, 0.70 * baseProxy + 0.30 * avgSales + n(rng))
ProxyUpdate ==
    /\ pc = "proxy"
    /\ \E n \in ProxyNoise :
        /\ MayLeave(n = 0)
        /\ baseProxy' = proxyUpdate(baseProxy, history, n)
    /\ rngLog' = Append(rngLog, "proxy")
    /\ steps' = Append(steps, "proxy")
    /\ pc' = nextStep("proxy")
    /\ UNCHANGED <<week, baseDemand, ev, inventory, cash, w, bestFound, chosen,
                   avail, potential, sold, history, learnCalls, learnArgs,
                   wBefore, upset>>

\* if (co.cash < -5000.0) break; then ++week and the test week <= weeks
EndWeek ==
    /\ pc = "endWeek"
    /\ IF cash < cashFloor * Scale \/ week + 1 > lastWeek
       THEN pc' = "done" /\ UNCHANGED <<week, steps, rngLog>>
       ELSE pc' = "drift" /\ week' = week + 1 /\ steps' = <<>> /\ rngLog' = <<>>
    /\ UNCHANGED <<baseDemand, ev, inventory, cash, w, baseProxy, bestFound,
                   chosen, avail, potential, sold, history, learnCalls,
                   learnArgs, wBefore, upset>>

Next ==
    \/ Drift
    \/ DrawEvent
    \/ Suggest
    \/ Accept
    \/ Override
    \/ BadLine
    \/ RealizeDemand
    \/ Settle
    \/ Learn
    \/ ProxyUpdate
    \/ EndWeek

Spec == Init /\ [][Next]_vars

-----------------------------------------------------------------------------
(* suggest as a function of its inputs: the weights, the inventory, the    *)
(* proxy and the event are drawn at the start, CallSuggest applies suggest *)
(* to them.                                                                *)

\* inventories 0, 40, ... , 40 * MaxInvSteps
MaxInvSteps == 1

WeightChoices ==
    {priorWeights,
     [w0 |-> w0Lo, wP |-> wPHi, wA |-> wALo, wB |-> wBLo, wI |-> wILo],
     [w0 |-> w0Hi, wP |-> wPLo, wA |-> wAHi, wB |-> wBHi, wI |-> wIHi],
     [w0 |-> w0Hi, wP |-> wPHi, wA |-> wAHi, wB |-> wBLo, wI |-> wILo],
     [w0 |-> 60000, wP |-> 1400, wA |-> 9000, wB |-> 0, wI |-> 80],
     [w0 |-> 10000, wP |-> 300, wA |-> 0, wB |-> 1000, wI |-> wIHi]}

InventoryChoices == {40 * k : k \in 0..MaxInvSteps}
ProxyChoices == {0, 50 * Scale}

SuggestInit ==
    /\ pc = "args"
    /\ w \in WeightChoices
    /\ inventory \in InventoryChoices
    /\ baseProxy \in ProxyChoices
    /\ ev \in {drawEvent(r) : r \in UniformDraws}
    /\ week = 1
    /\ baseDemand = baseDemandInit
    /\ cash = cashInit * Scale
    /\ bestFound = [profit |-> bestProfitInit, plan |-> noPlan]
    /\ chosen = noPlan
    /\ avail = 0
    /\ potential = 0
    /\ sold = 0
    /\ history = <<>>
    /\ steps = <<>>
    /\ rngLog = <<>>
    /\ learnCalls = 0
    /\ learnArgs = noArgs
    /\ wBefore = w
    /\ upset = FALSE

CallSuggest ==
    /\ pc = "args"
    /\ bestFound' = suggest(w, inventory, baseProxy, ev.adShock, ev.priceShock)
    /\ pc' = "returned"
    /\ UNCHANGED <<week, baseDemand, ev, inventory, cash, w, baseProxy, chosen,
                   avail, potential, sold, history, steps, rngLog, learnCalls,
                   learnArgs, wBefore, upset>>

SuggestNext == CallSuggest

SuggestSpec == SuggestInit /\ [][SuggestNext]_vars

-----------------------------------------------------------------------------
(* learn as a function of the weights and its arguments: starting from the *)
(* prior weights, CallLearn calls learn with arguments drawn from          *)
(* LearnArgChoices, up to MaxLearnCalls times.                             *)

MaxLearnCalls == 2

\* the arguments of the scenario: price 20, ad 1000, proxy 50, inventory 60,
\* 80 sold, a neutral event
scenarioArgs ==
    [price |-> 20 * Scale, ad |-> 1000, baseProxy |-> 50 * Scale,
     inventoryAvail |-> 60, sold |-> 80, eventAdMult |-> 0,
     eventPriceMult |-> 0]

LearnArgChoices ==
    {scenarioArgs}
    \cup [price : {9 * Scale, 40 * Scale}, ad : {0, 10000},
          baseProxy : {0, 50 * Scale}, inventoryAvail : {60},
          sold : {-200000, 0, 200000}, eventAdMult : {0},
          eventPriceMult : {0}]
    \cup [price : {20 * Scale}, ad : {1000}, baseProxy : {50 * Scale},
          inventoryAvail : {0, 640}, sold : {0, 640},
          eventAdMult : {500, -100}, eventPriceMult : {-100, 250}]

LearnInit ==
    /\ pc = "learner"
    /\ w = priorWeights
    /\ wBefore = priorWeights
    /\ learnCalls = 0
    /\ learnArgs = noArgs
    /\ week = 1
    /\ baseDemand = baseDemandInit
    /\ ev = noEvent
    /\ inventory = inventoryInit
    /\ cash = cashInit * Scale
    /\ baseProxy = 50 * Scale
    /\ bestFound = [profit |-> bestProfitInit, plan |-> noPlan]
    /\ chosen = noPlan
    /\ avail = 0
    /\ potential = 0
    /\ sold = 0
    /\ history = <<>>
    /\ steps = <<>>
    /\ rngLog = <<>>
    /\ upset = FALSE

CallLearn ==
    /\ pc = "learner"
    /\ learnCalls < MaxLearnCalls
    /\ \E a \in LearnArgChoices :
        /\ learnArgs' = a
        /\ w' = learn(w, a.price, a.ad, a.baseProxy, a.inventoryAvail, a.sold,
                      a.eventAdMult, a.eventPriceMult)
    /\ wBefore' = w
    /\ learnCalls' = learnCalls + 1
    /\ UNCHANGED <<pc, week, baseDemand, ev, inventory, cash, baseProxy,
                   bestFound, chosen, avail, potential, sold, history, steps,
                   rngLog, upset>>

LearnNext == CallLearn

LearnSpec == LearnInit /\ [][LearnNext]_vars

-----------------------------------------------------------------------------
(* Properties of suggest (checked under SuggestSpec)                       *)

Prices == priceLo..priceHi
AdSpends == {adStep * k : k \in 0..(adHi \div adStep)}
Productions == {prodStep * k : k \in 0..(prodHi \div prodStep)}
Grid == Prices \X AdSpends \X Productions

\* the grid point of the plan suggest returned
planPoint == <<plan.price \div Scale, plan.adSpend, plan.production>>

\* g is enumerated before h: price ascending, then ad spend, then production
EnumeratedBefore(g, h) ==
    \/ g[1] < h[1]
    \/ g[1] = h[1] /\ g[2] < h[2]
    \/ g[1] = h[1] /\ g[2] = h[2] /\ g[3] < h[3]

\* the demand predicted at grid point g for the inputs of the call
predictedAt(g) ==
    predict(w, g[1] * Scale, g[2], baseProxy, inventory + g[3], ev.adShock,
            ev.priceShock)

\* profit of g with the sale capped as C3 words it, min(predict, available),
\* in thousandths of a dollar
claimedProfit(g) ==
    Min(predictedAt(g), (inventory + g[3]) * Scale) * g[1]
      - (g[3] * unitCost + g[2] + fixedCost) * Scale

\* profit of g with the predicted sale rounded to whole units before the cap,
\* in dollars
roundedProfit(g) ==
    Min(roundInt(predictedAt(g)), inventory + g[3]) * g[1]
      - (g[3] * unitCost + g[2] + fixedCost)

\* C3 as stated: every grid point is scored with profit = cappedSale * price -
\* cost where cappedSale = min(predict(...), inventory + production), and the
\* returned action attains the maximum of that profit over the grid.
C3_AsStated ==
    pc = "returned" =>
        /\ bestProfit * Scale = claimedProfit(planPoint)
        /\ \A g \in Grid : claimedProfit(g) <= claimedProfit(planPoint)

\* C3 as stated, its second half alone: the returned action attains the
\* maximum over the grid of the profit with the unrounded capped sale.
C3_AsStatedArgmax ==
    pc = "returned" =>
        \A g \in Grid : claimedProfit(g) <= claimedProfit(planPoint)

\* C3 amended: every grid point is scored with profit = cappedSale * price -
\* cost where cappedSale = min((int)round(predict(...)), inventory +
\* production), the predicted sale rounded to whole units, and the returned
\* action attains the maximum of that profit over the grid.
C3_Amended ==
    pc = "returned" =>
        /\ planPoint \in Grid
        /\ bestProfit = roundedProfit(planPoint)
        /\ \A g \in Grid : roundedProfit(g) <= bestProfit

\* a call whose returned plan has a predicted demand that is no whole number
\* and lies below the available inventory
C3_Witness ==
    /\ pc = "returned"
    /\ predictedAt(planPoint) % Scale # 0
    /\ roundInt(predictedAt(planPoint)) < inventory + plan.production

\* C4: when several grid points have the best profit, suggest returns the one
\* enumerated first (price, then ad spend, then production, ascending).
C4_FirstFoundWins ==
    pc = "returned" =>
        \A g \in Grid :
            roundedProfit(g) = bestProfit => ~EnumeratedBefore(g, planPoint)

\* a call in which another grid point ties with the returned plan
C4_Witness ==
    /\ pc = "returned"
    /\ \E g \in Grid : g # planPoint /\ roundedProfit(g) = bestProfit
    /\ w # [w0 |-> w0Lo, wP |-> wPHi, wA |-> wALo, wB |-> wBLo, wI |-> wILo]

\* C5: the action suggest returns has price in [9,40], ad spend in [0,8000]
\* and production in [0,120].
C5_WithinGrid ==
    pc = "returned" =>
        /\ priceLo * Scale <= plan.price /\ plan.price <= priceHi * Scale
        /\ 0 <= plan.adSpend /\ plan.adSpend <= adHi
        /\ 0 <= plan.production /\ plan.production <= prodHi

\* a call that returns the highest price of the grid
C5_Witness ==
    pc = "returned" /\ plan.price = priceHi * Scale /\ w.wP = wPLo

-----------------------------------------------------------------------------
(* Properties of learn (checked under LearnSpec)                           *)

\* C2: after any number of learn calls every weight is inside its clamp
\* range.
C2_WeightsClamped ==
    /\ w0Lo <= w.w0 /\ w.w0 <= w0Hi
    /\ wPLo <= w.wP /\ w.wP <= wPHi
    /\ wALo <= w.wA /\ w.wA <= wAHi
    /\ wBLo <= w.wB /\ w.wB <= wBHi
    /\ wILo <= w.wI /\ w.wI <= wIHi

\* two calls of learn, the first stopped by the clamps on one side (w0, wA,
\* wB, wI on their upper bounds, wP on its lower), the second on the other
C2_Witness ==
    /\ learnCalls = 2
    /\ wBefore = [w0 |-> w0Hi, wP |-> wPLo, wA |-> wAHi, wB |-> wBHi, wI |-> wIHi]
    /\ w.wP = wPHi /\ w.wA = wALo /\ w.wB = wBLo /\ w.wI = wILo

\* the error of the last call of learn: soldUnits - yhat under the weights
\* the call started from
lastErr ==
    learnErr(wBefore, learnArgs.price, learnArgs.ad, learnArgs.baseProxy,
             learnArgs.inventoryAvail, learnArgs.sold, learnArgs.eventAdMult,
             learnArgs.eventPriceMult)

\* the scenario of C8: the first call of learn, from the prior weights, with
\* the scenario's arguments
InScenario == learnCalls = 1 /\ wBefore = priorWeights /\ learnArgs = scenarioArgs

\* C8 as stated: in the scenario the error is positive and w0 moves upward by
\* exactly learningRate * error * 1.
C8_AsStated ==
    InScenario =>
        /\ lastErr > 0
        /\ w.w0 > wBefore.w0
        /\ w.w0 - wBefore.w0 = Mul(lrTimes(lastErr), Scale)

\* C8 amended: in the scenario yhat (about 106.27) exceeds the 80 sold, so the
\* error is negative, and w0 moves downward, by exactly learningRate * error * 1.
C8_Amended ==
    InScenario =>
        /\ lastErr < 0
        /\ w.w0 < wBefore.w0
        /\ w.w0 - wBefore.w0 = Mul(lrTimes(lastErr), Scale)

\* the scenario has been run: error -26.272, w0 from 40 to 39.961
C8_Witness == InScenario /\ lastErr = -26272 /\ w.w0 = 39961

-----------------------------------------------------------------------------
(* Properties of the game loop (checked under Spec)                        *)

\* the steps of the week that have been done
Done(step) == \E i \in 1..Len(steps) : steps[i] = step

IsPrefix(s, t) == Len(s) <= Len(t) /\ \A i \in 1..Len(s) : s[i] = t[i]

\* C1: inventory is never negative, and the units sold in a week are
\* min(realizeDemand output, inventory after production), so never more than
\* the available inventory.
C1_InventoryAndSales ==
    /\ inventory >= 0
    /\ Done("realizeDemand") =>
          /\ potential >= 0
          /\ sold = Min(potential, avail)
          /\ sold <= avail
          /\ inventory = avail - sold

\* a week of stockout after the first: demand above the available inventory,
\* all of it sold
C1_Witness ==
    /\ week = 2
    /\ Done("realizeDemand")
    /\ potential > avail
    /\ avail > 0
    /\ sold = avail
    /\ inventory = 0

\* the order of the steps that C6 states
claimedOrder == <<"drift", "drawEvent", "suggest", "finalize", "realizeDemand",
                  "settle", "learn", "proxy">>
claimedDraws == <<"drift", "drawEvent", "realizeDemand", "proxy">>

\* C6: the steps of a week happen in the order drift, draw event, suggest,
\* finalization, realizeDemand, settlement, learn, proxy update; learn is called
\* once per week, after the week's sold units are known and before the proxy
\* update; the random stream is drawn from by drift, draw event, realizeDemand
\* and proxy update only, in that order.
C6_StepOrder ==
    /\ IsPrefix(steps, claimedOrder)
    /\ learnCalls = (week - 1) + (IF Done("learn") THEN 1 ELSE 0)
    /\ Done("learn") => Done("realizeDemand") /\ learnArgs.sold = sold
    /\ Done("proxy") => Done("learn")
    /\ rngLog = SelectSeq(steps, LAMBDA st : st \in {"drift", "drawEvent",
                                                      "realizeDemand", "proxy"})
    /\ IsPrefix(rngLog, claimedDraws)

\* the second week has run all its steps
C6_Witness ==
    week = 2 /\ steps = claimedOrder /\ learnCalls = 2 /\ rngLog = claimedDraws

\* C7: the target passed to learn is the censored sold count min(realized
\* demand, available inventory), and the inventoryAvailable passed to learn is
\* the inventory after production, before the sale.
C7_CensoredTarget ==
    Done("learn") =>
        /\ learnArgs.sold = Min(potential, avail)
        /\ learnArgs.inventoryAvail = avail
        /\ potential > avail => learnArgs.sold # potential

\* learn has been called in a week of stockout
C7_Witness ==
    Done("learn") /\ potential > avail /\ learnArgs.sold = avail /\ wBefore # w

\* C9: the finalized action passed to realizeDemand has price in [9,40], ad
\* spend in [0,10000] and production in [0,200].
C9_ChosenInDomain ==
    (pc = "realizeDemand" \/ Done("realizeDemand")) =>
        /\ 9 * Scale <= chosen.price /\ chosen.price <= 40 * Scale
        /\ 0 <= chosen.adSpend /\ chosen.adSpend <= 10000
        /\ 0 <= chosen.production /\ chosen.production <= 200

\* the player has overridden all three fields with out-of-range lines
C9_Witness ==
    /\ Done("realizeDemand")
    /\ chosen = [price |-> 40 * Scale, adSpend |-> 0, production |-> 200]
    /\ plan # chosen

====
